---- MODULE Spec2Model ----
(***************************************************************************)
(* Vector-search backend adapters of AIDR-Bastion                          *)
(* (app/pipelines/similarity_pipeline/backends): the Qdrant adapter and    *)
(* the OpenSearch adapter, each with its connection state, and the engine  *)
(* each one talks to.  One adapter instance is modelled per behaviour; its *)
(* kind is fixed at construction.  Every action is one whole method call.  *)
(*                                                                         *)
(* Spec         any calls on one adapter of either kind                    *)
(* FactorySpec  VectorBackendFactory.create_backend under every            *)
(*              configuration, then calls on the adapter it built          *)
(* HitSpec      searches over a stored document of any payload shape       *)
(* ProbeSpec    connect, two index_document calls and one search on a      *)
(*              Qdrant adapter                                             *)
(* LoopSpec     tasks of one event loop calling a connected adapter; a     *)
(*              call is split at its engine request                        *)
(* ConnSpec     connect() and close() on a Qdrant adapter, with the engine *)
(*              clients it constructs                                      *)
(* FlightSpec   close() on an OpenSearch adapter while a call waits for    *)
(*              the engine                                                 *)
(***************************************************************************)
EXTENDS Integers, Sequences, FiniteSets, TLC

\* ---------------------------------------------------------------- bounds
MaxLimit == 2        \* search limits range over 1..MaxLimit

MaxCalls == 2        \* backend calls one task makes on the event loop
MaxSteps == 2        \* steps of its own one task takes on the event loop
MaxClients == 3      \* engine clients one adapter constructs over its life

\* ------------------------------------------------------------- constants
DefaultVectorSize == 384   \* vector_size of the implicit creation in connect()
VectorDim == 3             \* dimensionality of the vectors the callers supply

NULL == "null"

Kinds == {"qdrant", "opensearch"}

\* self.collection_name and one other name create_collection may be given
Bound == "bound"
Other == "other"
CollNames == {Bound, Other}
Sizes == {VectorDim, DefaultVectorSize}

\* doc_id arguments
DocIds == {"u1", "u2"}
\* query and document vectors: e1 = [1,0,0], e2 = [0,1,0]
Vectors == {"e1", "e2"}
\* (text, details, category, metadata) of a document, as one value
Bodies == {"p1", "p2"}

Limits == 1..MaxLimit
\* similarity scores and thresholds, as integers: 2 is a perfect match
Scores == {0, 2}

VARIABLES
    settings,    \* get_settings(): the configuration the factory reads
    kind,        \* which adapter class the instance is
    collection_name, \* self.collection_name
    client,      \* self.client
    inner,       \* OpenSearch only: self.client.client, the lower client's handle
    connected,   \* self._connected
    colls,       \* engine: collection name -> vector size, 0 when absent
    docs,        \* engine: documents of the bound collection, by doc_id
    lastConnect, \* outcome of the latest connect(): "none", "ok", "failed"
    deleted,     \* history: the doc_ids a delete_document call returned true
                 \* for, with no index_document call for them since
    last,        \* the latest call: its arguments, what it returned, what it did
    probe,       \* the probe scenario: its position and what it met so far
    tasks,       \* the tasks sharing the adapter on one event loop
    blocked,     \* the task inside a synchronous engine call, holding the loop
    made,        \* how many engine clients the adapter has constructed
    open,        \* the constructed engine clients not closed yet, by number
    owned        \* the number of the client self.client refers to, 0 for none

\* the variables of the scenario specifications, idle in the others
others == <<probe, tasks, blocked, made, open, owned>>

vars == <<settings, kind, collection_name, client, inner, connected, colls, docs, lastConnect, deleted, last,
          others>>

\* ------------------------------------------------------------ call record
\* the scenario variables while no scenario runs
NoProbe == [pc |-> 0, healthy |-> TRUE, missing |-> FALSE, a |-> NULL, va |-> NULL]

OthersIdle ==
    /\ probe = NoProbe
    /\ tasks = <<>>
    /\ blocked = NULL
    /\ made = 0
    /\ open = {}
    /\ owned = 0

Call(op) ==
    [op |-> op, ret |-> FALSE, results |-> <<>>, raised |-> FALSE,
     sent |-> FALSE, err |-> FALSE, ack |-> FALSE,
     preReady |-> FALSE, preDoc |-> FALSE,
     doc_id |-> NULL, limit |-> 0, min_score |-> 0, coll |-> NULL,
     vector |-> NULL, body |-> NULL,   \* as the engine took them
     request |-> NULL,
     engLimit |-> 0, engThreshold |-> 0]

\* ------------------------------------------------------------- SearchResult
SearchResult(doc_id, body, score) ==
    [doc_id |-> doc_id, body |-> body, score |-> score]

\* --------------------------------------------------------- is_connected
QdrantIsConnected == connected /\ client # NULL

OpenSearchIsConnected == connected /\ client # NULL /\ inner # NULL

IsConnected ==
    IF kind = "qdrant" THEN QdrantIsConnected ELSE OpenSearchIsConnected

\* ------------------------------------------------------ engine outcomes
\* what one call on the engine's client does: it returns or it raises
Outcomes == {"ok", "raise"}

ABSENT == "absent"     \* a key a payload / _source mapping does not have

\* dict.get(key, default): the default only when the key is absent
Get(mapping, key, default) ==
    IF mapping[key] = ABSENT THEN default ELSE mapping[key]

Min(a, b) == IF a <= b THEN a ELSE b

\* the values an input of a call ranges over: one value stands for all when
\* the call returns before it reads the input
Drawn(S, read) == IF read THEN S ELSE {CHOOSE x \in S : TRUE}

\* ----------------------------------------------------------- Qdrant engine
\* cosine similarity of two of the Vectors, on the scale of Scores
Cosine(q, v) == IF q = v THEN 2 ELSE 0

RECURSIVE SortDesc(_, _)
\* the doc ids of S as a sequence, by descending similarity to q
SortDesc(S, q) ==
    IF S = {} THEN <<>>
    ELSE LET m == CHOOSE x \in S :
                      \A y \in S : Cosine(q, docs[y].vector) <= Cosine(q, docs[x].vector)
         IN  <<m>> \o SortDesc(S \ {m}, q)

\* client.search(collection_name, query_vector, limit, score_threshold):
\* the points scoring at least the threshold, best first, at most limit
QdrantEngineSearch(q, limit, score_threshold) ==
    LET cand   == {x \in DOMAIN docs : Cosine(q, docs[x].vector) >= score_threshold}
        sorted == SortDesc(cand, q)
        n      == Min(limit, Len(sorted))
    IN  [i \in 1..n |->
            [id |-> sorted[i], score |-> Cosine(q, docs[sorted[i]].vector),
             payload |-> docs[sorted[i]].payload]]

\* the engine takes requests on the bound collection for VectorDim-sized vectors
\* only when the collection exists with that size
QdrantCollectionFits == colls[Bound] = VectorDim

\* ------------------------------------------------- QdrantBackend methods
\* the keyword arguments search_similar_documents hands to client.search
QdrantSearchArgsNoThreshold(limit, min_score) ==
    [limit |-> limit, score_threshold |-> 0]

QdrantSearchArgs(limit, min_score) ==
    [limit |-> limit, score_threshold |-> min_score]

QdrantHitToResultIdOnly(hit) ==
    SearchResult(Get(hit.payload, "id", hit.id), "", hit.score)

\* one hit -> SearchResult
QdrantHitToResult(hit) ==
    SearchResult(Get(hit.payload, "id", hit.id),
                 Get(hit.payload, "body", ""),
                 hit.score)

QdrantSearchGuardClientOnly == client = NULL

\* "if not self.client or not self._connected" of search_similar_documents
QdrantSearchGuard == client = NULL \/ ~connected

QdrantSearchSimilarDocuments(vector, limit, min_score, out) ==
    LET c0 == [Call("search") EXCEPT !.limit = limit, !.min_score = min_score,
                                     !.preReady = IsConnected]
        args == QdrantSearchArgs(limit, min_score)
        c1 == [c0 EXCEPT !.sent = TRUE, !.coll = collection_name, !.vector = vector,
                         !.engLimit = args.limit,
                         !.engThreshold = args.score_threshold]
    IN  IF QdrantSearchGuard THEN c0
        ELSE IF out = "raise" \/ ~QdrantCollectionFits
             THEN [c1 EXCEPT !.err = TRUE, !.results = <<>>]
             ELSE LET hits == QdrantEngineSearch(vector, args.limit, args.score_threshold)
                  IN  [c1 EXCEPT !.results = [i \in 1..Len(hits) |-> QdrantHitToResult(hits[i])]]

\* a search that connects the adapter on its own
QSearchReconnecting ==
    /\ kind = "qdrant"
    /\ \E limit \in Limits, min_score \in Scores :
       \E vector \in Drawn(Vectors, ~QdrantSearchGuard),
          out \in Drawn(Outcomes, ~QdrantSearchGuard) :
           last' = QdrantSearchSimilarDocuments(vector, limit, min_score, out)
    /\ client' = "qc"
    /\ connected' = TRUE
    /\ UNCHANGED <<others, settings, collection_name, kind, inner, colls, docs, lastConnect, deleted>>

QSearch ==
    /\ kind = "qdrant"
    /\ \E limit \in Limits, min_score \in Scores :
       \E vector \in Drawn(Vectors, ~QdrantSearchGuard),
          out \in Drawn(Outcomes, ~QdrantSearchGuard) :
           last' = QdrantSearchSimilarDocuments(vector, limit, min_score, out)
    /\ UNCHANGED <<others, settings, collection_name, kind, client, inner, connected, colls, docs, lastConnect, deleted>>

\* the history after an index_document call for doc_id, and after a
\* delete_document call
AfterIndex(doc_id) == deleted \ {doc_id}

AfterDelete(call) ==
    IF call.ret THEN deleted \cup {call.doc_id} ELSE deleted

\* an engine that creates a document but never replaces one
StoredUnlessPresent(doc_id, doc) ==
    [x \in DOMAIN docs \cup {doc_id} |-> IF x \in DOMAIN docs THEN docs[x] ELSE doc]

\* the engine's documents after an upsert / a delete of one id
Stored(doc_id, doc) ==
    [x \in DOMAIN docs \cup {doc_id} |-> IF x = doc_id THEN doc ELSE docs[x]]

RemovedNothing(doc_id) == docs

Removed(doc_id) == [x \in DOMAIN docs \ {doc_id} |-> docs[x]]

\* the payload index_document builds, with the vector, as the engine keeps it
Document(doc_id, vector, body) ==
    [vector |-> vector, payload |-> [id |-> doc_id, body |-> body]]

\* client.upsert returns (the write is acknowledged) or raises
QdrantUpsertAccepted(doc_id, out) ==
    out = "ok" /\ QdrantCollectionFits

QdrantIndexDocument(doc_id, vector, body, out) ==
    LET c0 == [Call("index") EXCEPT !.doc_id = doc_id, !.preReady = IsConnected,
                                    !.preDoc = (doc_id \in DOMAIN docs)]
    IN  IF client = NULL \/ ~connected THEN [call |-> c0, docs |-> docs]
        ELSE IF QdrantUpsertAccepted(doc_id, out)
             THEN [call |-> [c0 EXCEPT !.sent = TRUE, !.coll = collection_name, !.ack = TRUE, !.ret = TRUE,
                                       !.vector = vector, !.body = body],
                   docs |-> Stored(doc_id, Document(doc_id, vector, body))]
             ELSE [call |-> [c0 EXCEPT !.sent = TRUE, !.coll = collection_name, !.err = TRUE, !.ret = FALSE],
                   docs |-> docs]

QIndex ==
    /\ kind = "qdrant"
    /\ \E doc_id \in DocIds :
       \E vector \in Drawn(Vectors, client # NULL /\ connected),
          body \in Drawn(Bodies, client # NULL /\ connected),
          out \in Drawn(Outcomes, client # NULL /\ connected) :
           LET r == QdrantIndexDocument(doc_id, vector, body, out)
           IN  last' = r.call /\ docs' = r.docs /\ deleted' = AfterIndex(doc_id)
    /\ UNCHANGED <<others, settings, collection_name, kind, client, inner, connected, colls, lastConnect>>

\* client.delete returns whether or not a point with that id exists; it raises
\* on an engine error or a missing collection
QdrantDeleteAccepted(doc_id, out) ==
    out = "ok" /\ colls[Bound] # 0

QdrantDeleteDocument(doc_id, out) ==
    LET c0 == [Call("delete") EXCEPT !.doc_id = doc_id, !.preReady = IsConnected,
                                     !.preDoc = (doc_id \in DOMAIN docs)]
    IN  IF client = NULL \/ ~connected THEN [call |-> c0, docs |-> docs]
        ELSE IF QdrantDeleteAccepted(doc_id, out)
             THEN [call |-> [c0 EXCEPT !.sent = TRUE, !.coll = collection_name, !.ack = TRUE, !.ret = TRUE],
                   docs |-> Removed(doc_id)]
             ELSE [call |-> [c0 EXCEPT !.sent = TRUE, !.coll = collection_name, !.err = TRUE, !.ret = FALSE],
                   docs |-> docs]

QDelete ==
    /\ kind = "qdrant"
    /\ \E doc_id \in DocIds, out \in Drawn(Outcomes, client # NULL /\ connected) :
           LET r == QdrantDeleteDocument(doc_id, out)
           IN  last' = r.call /\ docs' = r.docs /\ deleted' = AfterDelete(r.call)
    /\ UNCHANGED <<others, settings, collection_name, kind, client, inner, connected, colls, lastConnect>>

\* client.create_collection raises when the name is taken or the engine fails
QdrantCreateAccepted(name, out) == out = "ok" /\ colls[name] = 0

\* create_collection on the handle c: the value returned and the engine's collections
QdrantCreateCollection(c, name, size, out) ==
    IF c = NULL THEN [ret |-> FALSE, sent |-> FALSE, err |-> FALSE, colls |-> colls]
    ELSE IF QdrantCreateAccepted(name, out)
         THEN [ret |-> TRUE, sent |-> TRUE, err |-> FALSE,
               colls |-> [colls EXCEPT ![name] = size]]
         ELSE [ret |-> FALSE, sent |-> TRUE, err |-> TRUE, colls |-> colls]

\* a create_collection that binds the adapter to the name it is given
QCreateCollectionRebinding ==
    /\ kind = "qdrant"
    /\ \E name \in CollNames :
       \E size \in Drawn(Sizes, client # NULL /\ name = Bound), out \in Drawn(Outcomes, client # NULL) :
           LET r == QdrantCreateCollection(client, name, size, out)
           IN  /\ colls' = r.colls
               /\ collection_name' = name
               /\ last' = [Call("create_collection") EXCEPT
                              !.coll = name, !.preReady = IsConnected,
                              !.ret = r.ret, !.sent = r.sent, !.err = r.err,
                              !.ack = r.ret]
    /\ UNCHANGED <<others, settings, kind, client, inner, connected, docs, lastConnect, deleted>>

QCreateCollection ==
    /\ kind = "qdrant"
    /\ \E name \in CollNames :
       \E size \in Drawn(Sizes, client # NULL /\ name = Bound), out \in Drawn(Outcomes, client # NULL) :
           LET r == QdrantCreateCollection(client, name, size, out)
           IN  /\ colls' = r.colls
               /\ last' = [Call("create_collection") EXCEPT
                              !.coll = name, !.preReady = IsConnected,
                              !.ret = r.ret, !.sent = r.sent, !.err = r.err,
                              !.ack = r.ret]
    /\ UNCHANGED <<others, settings, collection_name, kind, client, inner, connected, docs, lastConnect, deleted>>

\* what client.get_collection(self.collection_name) can answer
QdrantGetCollectionOutcomes ==
    IF colls[Bound] # 0 THEN {"exists", "error"} ELSE {"missing", "error"}

\* _ensure_collection_exists on the handle c: whether it raised, and the
\* engine's collections afterwards ("missing" is the UnexpectedResponse whose
\* text says the collection doesn't exist, "error" any other exception)
QdrantEnsureCollectionExists(c, gc, cc) ==
    IF c = NULL THEN [raised |-> FALSE, colls |-> colls, err |-> FALSE]
    ELSE IF gc = "exists" THEN [raised |-> FALSE, colls |-> colls, err |-> FALSE]
    ELSE IF gc = "missing"
         THEN LET r == QdrantCreateCollection(c, Bound, DefaultVectorSize, cc)
              IN  [raised |-> FALSE, colls |-> r.colls, err |-> r.err]
         ELSE [raised |-> TRUE, colls |-> colls, err |-> TRUE]

QdrantConnectExceptReraise ==
    [client |-> NULL, connected |-> FALSE, raised |-> TRUE]

\* an except clause that drops the client and leaves the flag
QdrantConnectExceptKeepsFlag ==
    [client |-> NULL, connected |-> connected, raised |-> FALSE]

\* the "except Exception" clause of connect
QdrantConnectExcept ==
    [client |-> NULL, connected |-> FALSE, raised |-> FALSE]

\* connect() that takes the constructed client for a connected one
QdrantConnectWithoutRoundTrip(ctor, ping, gc, cc) ==
    IF ctor = "raise"
    THEN QdrantConnectExcept
         @@ [colls |-> colls, failed |-> TRUE, err |-> TRUE]
    ELSE [client |-> "qc", connected |-> TRUE, raised |-> FALSE,
          colls |-> colls, failed |-> FALSE, err |-> FALSE]

\* connect(): ctor is QdrantClient(...), ping is client.get_collections()
QdrantConnect(ctor, ping, gc, cc) ==
    IF ctor = "raise" \/ ping = "raise"
    THEN QdrantConnectExcept
         @@ [colls |-> colls, failed |-> TRUE, err |-> TRUE]
    ELSE LET e == QdrantEnsureCollectionExists("qc", gc, cc)
         IN  IF e.raised
             THEN QdrantConnectExcept
                  @@ [colls |-> colls, failed |-> TRUE, err |-> TRUE]
             ELSE [client |-> "qc", connected |-> TRUE, raised |-> FALSE,
                   colls |-> e.colls, failed |-> FALSE, err |-> e.err]

QConnect ==
    /\ kind = "qdrant"
    /\ \E ctor \in Outcomes, ping \in Outcomes, cc \in Outcomes :
       \E gc \in QdrantGetCollectionOutcomes :
           LET r == QdrantConnect(ctor, ping, gc, cc)
           IN  /\ client' = r.client
               /\ connected' = r.connected
               /\ colls' = r.colls
               /\ lastConnect' = IF r.failed THEN "failed" ELSE "ok"
               /\ last' = [Call("connect") EXCEPT
                              !.preReady = IsConnected, !.raised = r.raised,
                              !.err = r.err, !.sent = (ctor = "ok"),
                              !.ack = (ctor = "ok" /\ ping = "ok")]
    /\ UNCHANGED <<others, settings, collection_name, kind, inner, docs, deleted>>

\* close(): out is what client.close() does
QdrantClose(out) ==
    IF client # NULL
    THEN IF out = "ok"
         THEN [client |-> client, connected |-> FALSE, raised |-> FALSE,
               sent |-> TRUE, err |-> FALSE]
         ELSE [client |-> client, connected |-> connected, raised |-> FALSE,
               sent |-> TRUE, err |-> TRUE]
    ELSE [client |-> client, connected |-> connected, raised |-> FALSE,
          sent |-> FALSE, err |-> FALSE]

QClose ==
    /\ kind = "qdrant"
    /\ \E out \in Drawn(Outcomes, client # NULL) :
           LET r == QdrantClose(out)
           IN  /\ client' = r.client
               /\ connected' = r.connected
               /\ last' = [Call("close") EXCEPT
                              !.preReady = IsConnected, !.raised = r.raised,
                              !.err = r.err, !.sent = r.sent]
    /\ UNCHANGED <<others, settings, collection_name, kind, inner, colls, docs, lastConnect, deleted>>

\* ------------------------------------- AsyncOpenSearchClient (lower client)
\* client.connect(): it returns or raises, and leaves a handle or none
LowerConnectOutcomes ==
    {[raised |-> r, handle |-> h] : r \in BOOLEAN, h \in {NULL, "conn"}}

\* client.close(): it drops the handle and returns, or raises at any point
LowerCloseOutcomes ==
    {[raised |-> FALSE, handle |-> NULL]}
    \cup {[raised |-> TRUE, handle |-> h] : h \in {NULL, inner}}

\* the hits the lower client's search can return: the engine's hit format,
\* one per document the index holds, _source being the body it was indexed with
OSHits ==
    {[_id |-> i, _score |-> s, _source |-> docs[i].payload] :
        i \in DOMAIN docs, s \in Scores}

RECURSIVE HitLists(_)
\* the lists of hits for documents with ids in D, each document at most once,
\* in any order and with any scores
HitLists(D) ==
    {<<>>} \cup UNION {{<<h>> \o t : t \in HitLists(D \ {h._id})} :
                        h \in {x \in OSHits : x._id \in D}}

AllHitLists == HitLists(DOMAIN docs)

\* client.search_similar_documents(vector): without a handle it has nothing to
\* query and fails; with one it raises or returns a list of hits
LowerSearchOutcomes ==
    IF inner = NULL THEN {[raised |-> TRUE, hits |-> <<>>]}
    ELSE {[raised |-> TRUE, hits |-> <<>>]}
         \cup {[raised |-> FALSE, hits |-> h] : h \in AllHitLists}

\* the index the lower client was constructed with: self.collection_name as
\* __init__ set it
LowerIndex == Bound

\* ---------------------------------------------- OpenSearchBackend methods
\* connect(): o is what the lower client's connect() does
OpenSearchConnect(o) ==
    IF client = NULL
    THEN [connected |-> connected, inner |-> inner, failed |-> TRUE,
          err |-> FALSE, sent |-> FALSE]
    ELSE IF o.raised
         THEN [connected |-> FALSE, inner |-> o.handle, failed |-> TRUE,
               err |-> TRUE, sent |-> TRUE]
         ELSE [connected |-> (o.handle # NULL), inner |-> o.handle,
               failed |-> (o.handle = NULL), err |-> (o.handle = NULL),
               sent |-> TRUE]

OConnect ==
    /\ kind = "opensearch"
    /\ \E o \in Drawn(LowerConnectOutcomes, client # NULL) :
           LET r == OpenSearchConnect(o)
           IN  /\ connected' = r.connected
               /\ inner' = r.inner
               /\ lastConnect' = IF r.failed THEN "failed" ELSE "ok"
               /\ last' = [Call("connect") EXCEPT
                              !.preReady = IsConnected, !.err = r.err,
                              !.sent = r.sent]
    /\ UNCHANGED <<others, settings, collection_name, kind, client, colls, docs, deleted>>

\* close(): o is what the lower client's close() does
OpenSearchClose(o) ==
    IF client # NULL
    THEN IF o.raised
         THEN [connected |-> connected, inner |-> o.handle, err |-> TRUE, sent |-> TRUE]
         ELSE [connected |-> FALSE, inner |-> o.handle, err |-> FALSE, sent |-> TRUE]
    ELSE [connected |-> connected, inner |-> inner, err |-> FALSE, sent |-> FALSE]

OClose ==
    /\ kind = "opensearch"
    /\ \E o \in Drawn(LowerCloseOutcomes, client # NULL) :
           LET r == OpenSearchClose(o)
           IN  /\ connected' = r.connected
               /\ inner' = r.inner
               /\ last' = [Call("close") EXCEPT
                              !.preReady = IsConnected, !.err = r.err,
                              !.sent = r.sent]
    /\ UNCHANGED <<others, settings, collection_name, kind, client, colls, docs, lastConnect, deleted>>

\* one hit -> SearchResult
OpenSearchHitToResult(doc) ==
    SearchResult(Get(doc._source, "id", doc._id),
                 Get(doc._source, "body", ""),
                 doc._score)

RECURSIVE OpenSearchCollect(_, _, _, _)
\* the loop over the documents: skip a hit under min_score, append the others,
\* stop once limit results are collected
OpenSearchCollect(hits, results, limit, min_score) ==
    IF hits = <<>> THEN results
    ELSE LET doc == Head(hits)
         IN  IF doc._score < min_score
             THEN OpenSearchCollect(Tail(hits), results, limit, min_score)
             ELSE LET r2 == Append(results, OpenSearchHitToResult(doc))
                  IN  IF Len(r2) >= limit THEN r2
                      ELSE OpenSearchCollect(Tail(hits), r2, limit, min_score)

OpenSearchSearchSimilarDocuments(vector, o, limit, min_score) ==
    LET c0 == [Call("search") EXCEPT !.limit = limit, !.min_score = min_score,
                                     !.preReady = IsConnected]
        c1 == [c0 EXCEPT !.sent = TRUE, !.coll = LowerIndex, !.vector = vector]
    IN  IF client = NULL \/ ~connected THEN c0
        ELSE IF o.raised
             THEN [c1 EXCEPT !.err = TRUE, !.results = <<>>]
             ELSE [c1 EXCEPT !.results = OpenSearchCollect(o.hits, <<>>, limit, min_score)]

OSearch ==
    /\ kind = "opensearch"
    /\ \E limit \in Limits, min_score \in Scores :
       \E vector \in Drawn(Vectors, client # NULL /\ connected),
          o \in Drawn(LowerSearchOutcomes, client # NULL /\ connected) :
           last' = OpenSearchSearchSimilarDocuments(vector, o, limit, min_score)
    /\ UNCHANGED <<others, settings, collection_name, kind, client, inner, connected, colls, docs, lastConnect, deleted>>

\* what a request on the engine handle (client.client) does: the engine applies
\* it ("ack"), answers without applying it ("other"), or the call raises
Responses == {"ack", "other", "raise"}

\* the "result" field of the engine's answer to client.client.index
OpenSearchIndexResult(doc_id, resp) ==
    IF resp = "ack"
    THEN IF doc_id \in DOMAIN docs THEN "updated" ELSE "created"
    ELSE "noop"

OpenSearchIndexConfirmedAny(result) == TRUE

\* 'response.get("result") in ["created", "updated"]'
OpenSearchIndexConfirmed(result) == result \in {"created", "updated"}

OpenSearchIndexGuardClientOnly == client = NULL

\* "if not self.client or not self._connected" of index_document
OpenSearchIndexGuard == client = NULL \/ ~connected

OpenSearchIndexDocument(doc_id, vector, body, resp) ==
    LET c0 == [Call("index") EXCEPT !.doc_id = doc_id, !.preReady = IsConnected,
                                    !.preDoc = (doc_id \in DOMAIN docs)]
        c1 == [c0 EXCEPT !.sent = TRUE, !.coll = collection_name, !.ack = (resp = "ack"),
                         !.vector = IF resp = "ack" THEN vector ELSE NULL,
                         !.body = IF resp = "ack" THEN body ELSE NULL]
        \* what the engine holds once it has answered
        held == IF resp = "ack"
                THEN Stored(doc_id, Document(doc_id, vector, body))
                ELSE docs
    IN  IF OpenSearchIndexGuard THEN [call |-> c0, docs |-> docs]
        ELSE IF inner = NULL
             THEN [call |-> [c0 EXCEPT !.err = TRUE], docs |-> docs]
        ELSE IF resp = "raise"
             THEN [call |-> [c1 EXCEPT !.err = TRUE], docs |-> docs]
        ELSE IF OpenSearchIndexConfirmed(OpenSearchIndexResult(doc_id, resp))
             THEN [call |-> [c1 EXCEPT !.ret = TRUE], docs |-> held]
             ELSE [call |-> [c1 EXCEPT !.ret = FALSE], docs |-> held]

OIndex ==
    /\ kind = "opensearch"
    /\ \E doc_id \in DocIds :
       \E vector \in Drawn(Vectors, ~OpenSearchIndexGuard /\ inner # NULL),
          body \in Drawn(Bodies, ~OpenSearchIndexGuard /\ inner # NULL),
          resp \in Drawn(Responses, ~OpenSearchIndexGuard /\ inner # NULL) :
           LET r == OpenSearchIndexDocument(doc_id, vector, body, resp)
           IN  /\ last' = r.call
               /\ docs' = r.docs
               /\ deleted' = AfterIndex(doc_id)
               \* the engine creates a missing index on the first write to it
               /\ colls' = IF r.call.ack /\ colls[Bound] = 0
                           THEN [colls EXCEPT ![Bound] = VectorDim]
                           ELSE colls
    /\ UNCHANGED <<others, settings, collection_name, kind, client, inner, connected, lastConnect>>

\* the "result" field of the engine's answer to client.client.delete
OpenSearchDeleteResult(doc_id, resp) ==
    IF resp = "ack"
    THEN IF doc_id \in DOMAIN docs THEN "deleted" ELSE "not_found"
    ELSE "noop"

OpenSearchDeleteDocument(doc_id, resp) ==
    LET c0 == [Call("delete") EXCEPT !.doc_id = doc_id, !.preReady = IsConnected,
                                     !.preDoc = (doc_id \in DOMAIN docs)]
    IN  IF client = NULL \/ ~connected THEN [call |-> c0, docs |-> docs]
        ELSE IF inner = NULL
             THEN [call |-> [c0 EXCEPT !.err = TRUE], docs |-> docs]
        ELSE IF resp = "raise"
             THEN [call |-> [c0 EXCEPT !.sent = TRUE, !.coll = collection_name, !.err = TRUE], docs |-> docs]
        ELSE LET c1 == [c0 EXCEPT !.sent = TRUE, !.coll = collection_name,
                                  !.ack = (resp = "ack" /\ doc_id \in DOMAIN docs)]
                 held == IF resp = "ack" THEN Removed(doc_id) ELSE docs
             IN  IF OpenSearchDeleteResult(doc_id, resp) = "deleted"
                 THEN [call |-> [c1 EXCEPT !.ret = TRUE], docs |-> held]
                 ELSE [call |-> [c1 EXCEPT !.ret = FALSE], docs |-> held]

ODelete ==
    /\ kind = "opensearch"
    /\ \E doc_id \in DocIds, resp \in Drawn(Responses, OpenSearchIsConnected) :
           LET r == OpenSearchDeleteDocument(doc_id, resp)
           IN  last' = r.call /\ docs' = r.docs /\ deleted' = AfterDelete(r.call)
    /\ UNCHANGED <<others, settings, collection_name, kind, client, inner, connected, colls, lastConnect>>

\* create_collection: the engine acknowledges a new index; an existing name or
\* an engine failure raises, any other answer is not acknowledged
OpenSearchCreateCollection(name, size, resp) ==
    LET c0 == [Call("create_collection") EXCEPT
                  !.coll = name, !.preReady = IsConnected]
    IN  IF client = NULL \/ ~connected THEN [call |-> c0, colls |-> colls]
        ELSE IF inner = NULL
             THEN [call |-> [c0 EXCEPT !.err = TRUE], colls |-> colls]
        ELSE IF resp = "raise" \/ (resp = "ack" /\ colls[name] # 0)
             THEN [call |-> [c0 EXCEPT !.sent = TRUE, !.err = TRUE], colls |-> colls]
        ELSE IF resp = "ack"
             THEN [call |-> [c0 EXCEPT !.sent = TRUE, !.ack = TRUE, !.ret = TRUE],
                   colls |-> [colls EXCEPT ![name] = size]]
             ELSE [call |-> [c0 EXCEPT !.sent = TRUE, !.ret = FALSE], colls |-> colls]

OCreateCollection ==
    /\ kind = "opensearch"
    /\ \E name \in CollNames :
       \E size \in Drawn(Sizes, OpenSearchIsConnected /\ name = Bound),
          resp \in Drawn(Responses, OpenSearchIsConnected) :
           LET r == OpenSearchCreateCollection(name, size, resp)
           IN  last' = r.call /\ colls' = r.colls
    /\ UNCHANGED <<others, settings, collection_name, kind, client, inner, connected, docs, lastConnect, deleted>>

\* ------------------------------------------------------ VectorBackendFactory
\* the settings object: QDRANT_HOST (None when the attribute is unset) and OS
NoSettings == [QDRANT_HOST |-> NULL, OS |-> NULL]

SettingsValues == {[QDRANT_HOST |-> h, OS |-> o] : h \in {NULL, "qhost"}, o \in {NULL, "os"}}

\* backend_type arguments; NULL is None
Requests == {NULL, "", "auto", "AUTO", "qdrant", "Qdrant", "opensearch", "nonexistent"}

\* str.lower() on the Requests
Lower(t) ==
    CASE t = "AUTO" -> "auto"
      [] t = "Qdrant" -> "qdrant"
      [] OTHER -> t

\* truth value of an optional string: None and "" are false
Truthy(x) == x \notin {NULL, ""}

AutoDetectBackendPrefersOpenSearch ==
    IF settings.OS # NULL THEN "opensearch"
    ELSE IF Truthy(settings.QDRANT_HOST) THEN "qdrant"
    ELSE "opensearch"

\* _auto_detect_backend()
AutoDetectBackend ==
    IF Truthy(settings.QDRANT_HOST) THEN "qdrant"
    ELSE IF settings.OS # NULL THEN "opensearch"
    ELSE "opensearch"

\* _create_qdrant_backend(): QdrantBackend.__init__ leaves client None
CreateQdrantBackend == [kind |-> "qdrant", client |-> NULL]

CreateOpenSearchBackendAlwaysClient ==
    [kind |-> "opensearch", client |-> "osc"]

\* _create_opensearch_backend(): OpenSearchBackend.__init__ builds its lower
\* client only when settings.OS is given
CreateOpenSearchBackend ==
    [kind |-> "opensearch", client |-> IF settings.OS # NULL THEN "osc" ELSE NULL]

\* no adapter: create_backend returned None, or has not returned
NoBackend == [kind |-> "none", client |-> NULL]

CreateBackendRequestsAuto(backend_type) ==
    ~Truthy(backend_type) \/ backend_type = "auto"

\* create_backend(backend_type): read is get_settings() at its first line,
\* detect the auto-detection, build the _create_*_backend call; the value is
\* the adapter returned (NoBackend for None) and whether an exception escaped
CreateBackend(backend_type, read, detect, build) ==
    IF read = "raise" THEN [backend |-> NoBackend, raised |-> TRUE, err |-> TRUE]
    ELSE IF CreateBackendRequestsAuto(backend_type) /\ detect = "raise"
         THEN [backend |-> NoBackend, raised |-> TRUE, err |-> TRUE]
    ELSE LET t == Lower(IF CreateBackendRequestsAuto(backend_type)
                        THEN AutoDetectBackend ELSE backend_type)
         IN  IF t \notin {"qdrant", "opensearch"}
             THEN [backend |-> NoBackend, raised |-> FALSE, err |-> FALSE]
             ELSE IF build = "raise"
             THEN [backend |-> NoBackend, raised |-> FALSE, err |-> TRUE]
             ELSE [backend |-> IF t = "qdrant" THEN CreateQdrantBackend
                               ELSE CreateOpenSearchBackend,
                   raised |-> FALSE, err |-> FALSE]

\* "from qdrant_client import QdrantClient" inside is_backend_available: the
\* factory module itself imports qdrant_backend, which imports qdrant_client
\* at its top, so wherever the factory runs the import succeeds
QdrantClientImportable == TRUE

\* is_backend_available(backend_type)
IsBackendAvailable(backend_type) ==
    IF Lower(backend_type) = "qdrant" THEN QdrantClientImportable
    ELSE IF Lower(backend_type) = "opensearch" THEN settings.OS # NULL
    ELSE FALSE

\* get_available_backends(), as the set of the names it lists
GetAvailableBackends == {"qdrant", "opensearch"}

FCreateBackend ==
    /\ kind = "none"
    /\ \E backend_type \in Requests, read \in Outcomes :
       \E detect \in Drawn(Outcomes, read = "ok" /\ CreateBackendRequestsAuto(backend_type)),
          build \in Drawn(Outcomes, read = "ok") :
           LET r == CreateBackend(backend_type, read, detect, build)
           IN  /\ kind' = r.backend.kind
               /\ client' = r.backend.client
               /\ last' = [Call("create_backend") EXCEPT
                              !.request = backend_type, !.raised = r.raised,
                              !.err = r.err, !.ret = (r.backend.kind # "none")]
    /\ UNCHANGED <<others, settings, collection_name, inner, connected, colls, docs, lastConnect, deleted>>

\* ------------------------------------------------------------ specification
\* a freshly constructed adapter (QdrantBackend.__init__ leaves client None;
\* OpenSearchBackend.__init__ builds its client only when settings are given)
\* in front of an engine that may already hold the bound collection
Init ==
    /\ settings = NoSettings
    /\ collection_name = Bound
    /\ kind \in Kinds
    /\ client \in (IF kind = "qdrant" THEN {NULL} ELSE {NULL, "osc"})
    /\ inner = NULL
    /\ connected = FALSE
    /\ colls \in {[n \in CollNames |-> IF n = Bound THEN b ELSE 0] : b \in {0} \cup Sizes}
    /\ docs = [x \in {} |-> NULL]
    /\ lastConnect = "none"
    /\ deleted = {}
    /\ last = Call("init")
    /\ OthersIdle

Next ==
    \/ QConnect
    \/ QClose
    \/ QSearch
    \/ QIndex
    \/ QDelete
    \/ QCreateCollection
    \/ OConnect
    \/ OClose
    \/ OSearch
    \/ OIndex
    \/ ODelete
    \/ OCreateCollection

Spec == Init /\ [][Next]_vars

\* the factory, and the calls made on the adapter it built, under every
\* configuration
FactoryInit ==
    /\ settings \in SettingsValues
    /\ collection_name = Bound
    /\ kind = "none"
    /\ client = NULL
    /\ inner = NULL
    /\ connected = FALSE
    /\ colls = [n \in CollNames |-> IF n = Bound THEN VectorDim ELSE 0]
    /\ docs = [x \in {} |-> NULL]
    /\ lastConnect = "none"
    /\ deleted = {}
    /\ last = Call("init")
    /\ OthersIdle

FactoryNext ==
    \/ FCreateBackend
    \/ OConnect
    \/ OClose
    \/ OSearch
    \/ OIndex
    \/ ODelete

FactorySpec == FactoryInit /\ [][FactoryNext]_vars

\* the payloads / _source mappings a stored document can carry, whoever wrote
\* it: each field missing, holding an explicit null, or holding a value (a
\* payload of None reads as the all-missing one: "hit.payload or {}")
PayloadShapes ==
    {[id |-> i, body |-> b] : i \in {ABSENT, NULL, "u1"}, b \in {ABSENT, NULL, "p1"}}

\* either adapter in front of a collection holding one document of any shape
HitInit ==
    /\ settings = NoSettings
    /\ collection_name = Bound
    /\ kind \in Kinds
    /\ client = IF kind = "qdrant" THEN NULL ELSE "osc"
    /\ inner = NULL
    /\ connected = FALSE
    /\ colls = [n \in CollNames |-> IF n = Bound THEN VectorDim ELSE 0]
    /\ docs \in {[x \in {"u1"} |-> [vector |-> "e1", payload |-> shape]] :
                    shape \in PayloadShapes}
    /\ lastConnect = "none"
    /\ deleted = {}
    /\ last = Call("init")
    /\ OthersIdle

HitNext ==
    \/ QConnect
    \/ QSearch
    \/ OConnect
    \/ OSearch

HitSpec == HitInit /\ [][HitNext]_vars

\* ------------------------------------------------------- the probe scenario
\* connect(), index_document("a", [1,0,0], ...), index_document("b", [0,1,0],
\* ...), search_similar_documents([1,0,0], limit=1, min_score=0.0) on a Qdrant
\* adapter whose callers use VectorDim-sized vectors.  probe.a is the doc_id
\* standing for "a" and probe.va the vector standing for [1,0,0]; "b" and
\* [0,1,0] are the other doc_id and the other vector
ProbeA == probe.a
ProbeB == CHOOSE x \in DocIds : x # probe.a
ProbeVA == probe.va
ProbeVB == CHOOSE v \in Vectors : v # probe.va

\* the scenario after one more call: healthy while every engine call answered
ProbeStep(answered) ==
    [probe EXCEPT !.pc = @ + 1, !.healthy = @ /\ answered]

ProbeInit ==
    /\ settings = NoSettings
    /\ collection_name = Bound
    /\ kind = "qdrant"
    /\ client = NULL
    /\ inner = NULL
    /\ connected = FALSE
    /\ colls \in {[n \in CollNames |-> IF n = Bound THEN b ELSE 0] : b \in {0} \cup Sizes}
    /\ docs = [x \in {} |-> NULL]
    /\ lastConnect = "none"
    /\ deleted = {}
    /\ last = Call("init")
    /\ probe \in {[pc |-> 0, healthy |-> TRUE, missing |-> (colls[Bound] = 0),
                    a |-> a, va |-> va] : a \in DocIds, va \in Vectors}
    /\ tasks = <<>>
    /\ blocked = NULL
    /\ made = 0
    /\ open = {}
    /\ owned = 0

ProbeConnect ==
    /\ probe.pc = 0
    /\ \E ctor \in Outcomes, ping \in Outcomes, cc \in Outcomes :
       \E gc \in QdrantGetCollectionOutcomes :
           LET r == QdrantConnect(ctor, ping, gc, cc)
           IN  /\ client' = r.client
               /\ connected' = r.connected
               /\ colls' = r.colls
               /\ lastConnect' = IF r.failed THEN "failed" ELSE "ok"
               /\ last' = [Call("connect") EXCEPT
                              !.raised = r.raised, !.err = r.err, !.sent = (ctor = "ok")]
               /\ probe' = ProbeStep(ctor = "ok" /\ ping = "ok" /\ gc # "error"
                                      /\ (gc = "missing" => cc = "ok"))
    /\ UNCHANGED <<settings, collection_name, kind, inner, docs, deleted, tasks, blocked, made, open, owned>>

ProbeIndexA ==
    /\ probe.pc = 1
    /\ \E body \in Bodies, out \in Outcomes :
           LET r == QdrantIndexDocument(ProbeA, ProbeVA, body, out)
           IN  /\ last' = r.call
               /\ docs' = r.docs
               /\ deleted' = AfterIndex(ProbeA)
               /\ probe' = ProbeStep(out = "ok")
    /\ UNCHANGED <<settings, collection_name, kind, client, inner, connected, colls, lastConnect,
                   tasks, blocked, made, open, owned>>

ProbeIndexB ==
    /\ probe.pc = 2
    /\ \E body \in Bodies, out \in Outcomes :
           LET r == QdrantIndexDocument(ProbeB, ProbeVB, body, out)
           IN  /\ last' = r.call
               /\ docs' = r.docs
               /\ deleted' = AfterIndex(ProbeB)
               /\ probe' = ProbeStep(out = "ok")
    /\ UNCHANGED <<settings, collection_name, kind, client, inner, connected, colls, lastConnect,
                   tasks, blocked, made, open, owned>>

ProbeSearch ==
    /\ probe.pc = 3
    /\ \E out \in Outcomes :
           /\ last' = QdrantSearchSimilarDocuments(ProbeVA, 1, 0, out)
           /\ probe' = ProbeStep(out = "ok")
    /\ UNCHANGED <<settings, collection_name, kind, client, inner, connected, colls, docs, lastConnect,
                   deleted, tasks, blocked, made, open, owned>>

ProbeNext ==
    \/ ProbeConnect
    \/ ProbeIndexA
    \/ ProbeIndexB
    \/ ProbeSearch

ProbeSpec == ProbeInit /\ [][ProbeNext]_vars

\* ----------------------------------------------------------- the event loop
\* tasks of one process share a connected adapter; the event loop runs one
\* task at a time on one thread, and a task gives the thread up only at an
\* await
Tasks == {"t1", "t2"}
Ops == {"search", "index", "delete"}

\* whether the engine request of the operation is awaited: the Qdrant adapter
\* calls client.search / client.upsert / client.delete directly, the
\* OpenSearch adapter awaits its client's coroutines
Awaits(k, op) ==
    IF k = "qdrant" THEN FALSE ELSE TRUE

LoopInit ==
    /\ settings = NoSettings
    /\ collection_name = Bound
    /\ kind \in Kinds
    /\ client = IF kind = "qdrant" THEN "qc" ELSE "osc"
    /\ inner = IF kind = "qdrant" THEN NULL ELSE "conn"
    /\ connected = TRUE
    /\ colls = [n \in CollNames |-> IF n = Bound THEN VectorDim ELSE 0]
    /\ docs = [x \in {} |-> NULL]
    /\ lastConnect = "ok"
    /\ deleted = {}
    /\ last = Call("connect")
    /\ probe = NoProbe
    /\ tasks = [t \in Tasks |-> [pc |-> "ready", op |-> NULL, calls |-> 0, steps |-> 0]]
    /\ blocked = NULL
    /\ made = 0
    /\ open = {}
    /\ owned = 0

\* the loop runs task t up to the engine request of one backend call: the
\* request is sent, and the thread is given up only if the request is awaited
TaskCall ==
    /\ blocked = NULL
    /\ \E t \in Tasks, op \in Ops :
           /\ tasks[t].pc = "ready"
           /\ tasks[t].calls < MaxCalls
           /\ tasks' = [tasks EXCEPT ![t].pc = "waiting", ![t].op = op]
           /\ blocked' = IF Awaits(kind, op) THEN NULL ELSE t
    /\ UNCHANGED <<settings, collection_name, kind, client, inner, connected, colls, docs, lastConnect,
                   deleted, last, probe, made, open, owned>>

\* the engine's reply to task t arrives: the synchronous call returns, or
\* the loop, once free, resumes the awaiting task; the call returns
EngineReply ==
    /\ \E t \in Tasks :
           /\ tasks[t].pc = "waiting"
           /\ blocked \in {NULL, t}
           /\ tasks' = [tasks EXCEPT ![t].pc = "ready", ![t].op = NULL,
                                      ![t].calls = @ + 1]
           /\ last' = [Call(tasks[t].op) EXCEPT !.preReady = TRUE, !.sent = TRUE]
    /\ blocked' = NULL
    /\ UNCHANGED <<settings, collection_name, kind, client, inner, connected, colls, docs, lastConnect,
                   deleted, probe, made, open, owned>>

\* the loop runs a step of task t that involves no backend call
TaskStep ==
    /\ blocked = NULL
    /\ \E t \in Tasks :
           /\ tasks[t].pc = "ready"
           /\ tasks[t].steps < MaxSteps
           /\ tasks' = [tasks EXCEPT ![t].steps = @ + 1]
    /\ UNCHANGED <<settings, collection_name, kind, client, inner, connected, colls, docs, lastConnect,
                   deleted, last, probe, blocked, made, open, owned>>

LoopNext ==
    \/ TaskCall
    \/ EngineReply
    \/ TaskStep

LoopSpec == LoopInit /\ [][LoopNext]_vars

\* ------------------------------------------- close() during a call in flight
\* one task calls a connected OpenSearch adapter; its call is split at the
\* awaited engine request, and close() can run from another task in between
FlightTasks == {"t1"}

\* an except clause that lets the exception out
OpenSearchDataExceptEscapes(c) ==
    [c EXCEPT !.err = TRUE, !.raised = TRUE]

\* the "except Exception" clause of search_similar_documents, index_document
\* and delete_document: the neutral value is returned
OpenSearchDataExcept(c) ==
    [c EXCEPT !.err = TRUE, !.raised = FALSE, !.results = <<>>, !.ret = FALSE]

\* the engine's replies to a pending search: it raises or returns hits
FlightSearchReplies ==
    {[raised |-> TRUE, hits |-> <<>>]}
    \cup {[raised |-> FALSE, hits |-> h] : h \in AllHitLists}

\* search_similar_documents from its await on: c is the call so far
OpenSearchSearchResume(c, o) ==
    IF o.raised THEN OpenSearchDataExcept(c)
    ELSE [c EXCEPT !.results = OpenSearchCollect(o.hits, <<>>, c.limit, c.min_score)]

\* index_document from its await on
OpenSearchIndexResume(c, resp) ==
    IF resp = "raise" THEN [call |-> OpenSearchDataExcept(c), docs |-> docs]
    ELSE [call |-> [c EXCEPT !.ack = (resp = "ack"),
                             !.ret = OpenSearchIndexConfirmed(
                                         OpenSearchIndexResult(c.doc_id, resp))],
          docs |-> IF resp = "ack"
                   THEN Stored(c.doc_id, Document(c.doc_id, c.vector, c.body))
                   ELSE docs]

\* delete_document from its await on
OpenSearchDeleteResume(c, resp) ==
    IF resp = "raise" THEN [call |-> OpenSearchDataExcept(c), docs |-> docs]
    ELSE [call |-> [c EXCEPT !.ack = (resp = "ack" /\ c.doc_id \in DOMAIN docs),
                             !.ret = (OpenSearchDeleteResult(c.doc_id, resp) = "deleted")],
          docs |-> IF resp = "ack" THEN Removed(c.doc_id) ELSE docs]

FlightInit ==
    /\ settings = NoSettings
    /\ collection_name = Bound
    /\ kind = "opensearch"
    /\ client = "osc"
    /\ inner = "conn"
    /\ connected = TRUE
    /\ colls = [n \in CollNames |-> IF n = Bound THEN VectorDim ELSE 0]
    /\ docs = [x \in {"u1"} |-> Document("u1", "e1", "p1")]
    /\ lastConnect = "ok"
    /\ deleted = {}
    /\ last = Call("connect")
    /\ probe = NoProbe
    /\ tasks = [t \in FlightTasks |->
                  [pc |-> "ready", call |-> Call("none"), calls |-> 0, closed |-> FALSE]]
    /\ blocked = NULL
    /\ made = 0
    /\ open = {}
    /\ owned = 0

\* task t calls search_similar_documents, index_document or delete_document:
\* the call returns at its guard, fails before its request leaves, or sends
\* the request and waits for the reply
FlightCall ==
    /\ \E t \in FlightTasks, op \in Ops :
       \E doc_id \in Drawn(DocIds, op # "search"),
          vector \in Drawn(Vectors, op # "delete"),
          body \in Drawn(Bodies, op = "index"),
          limit \in Drawn(Limits, op = "search"),
          min_score \in Drawn(Scores, op = "search") :
           LET c0 == [Call(op) EXCEPT
                         !.preReady = IsConnected,
                         !.doc_id = IF op = "search" THEN NULL ELSE doc_id,
                         !.preDoc = (op # "search" /\ doc_id \in DOMAIN docs),
                         !.limit = IF op = "search" THEN limit ELSE 0,
                         !.min_score = IF op = "search" THEN min_score ELSE 0]
               c1 == [c0 EXCEPT
                         !.sent = TRUE,
                         !.coll = IF op = "search" THEN LowerIndex ELSE collection_name,
                         !.vector = IF op = "delete" THEN NULL ELSE vector,
                         !.body = IF op = "index" THEN body ELSE NULL]
           IN  /\ tasks[t].pc = "ready"
               /\ tasks[t].calls < MaxCalls
               /\ IF client = NULL \/ ~connected
                  THEN /\ last' = c0
                       /\ tasks' = [tasks EXCEPT ![t].calls = @ + 1, ![t].closed = FALSE]
                  ELSE IF inner = NULL
                  THEN /\ last' = OpenSearchDataExcept(c0)
                       /\ tasks' = [tasks EXCEPT ![t].calls = @ + 1, ![t].closed = FALSE]
                  ELSE /\ last' = last
                       /\ tasks' = [tasks EXCEPT ![t].pc = "waiting", ![t].call = c1,
                                                  ![t].closed = FALSE]
    /\ UNCHANGED <<settings, collection_name, kind, client, inner, connected, colls, docs,
                   lastConnect, deleted, probe, blocked, made, open, owned>>

\* close() runs to its end while a call may be waiting for its reply
FlightClose ==
    /\ \E o \in LowerCloseOutcomes :
           LET r == OpenSearchClose(o)
           IN  /\ connected' = r.connected
               /\ inner' = r.inner
               /\ last' = [Call("close") EXCEPT
                              !.preReady = IsConnected, !.err = r.err,
                              !.sent = r.sent]
    /\ tasks' = [t \in FlightTasks |->
                    IF tasks[t].pc = "waiting"
                    THEN [tasks[t] EXCEPT !.closed = TRUE] ELSE tasks[t]]
    /\ UNCHANGED <<settings, collection_name, kind, client, colls, docs, lastConnect,
                   deleted, probe, blocked, made, open, owned>>

\* the reply to the pending request of task t arrives, or the request fails:
\* the call resumes after its await and returns
FlightReply ==
    /\ \E t \in FlightTasks :
           LET c == tasks[t].call
           IN  /\ tasks[t].pc = "waiting"
               /\ tasks' = [tasks EXCEPT ![t].pc = "ready", ![t].call = Call("none"),
                                          ![t].calls = @ + 1]
               /\ CASE c.op = "search" ->
                         /\ \E o \in FlightSearchReplies :
                                last' = OpenSearchSearchResume(c, o)
                         /\ UNCHANGED <<docs, deleted>>
                    [] c.op = "index" ->
                         \E resp \in Responses :
                             LET r == OpenSearchIndexResume(c, resp)
                             IN  /\ last' = r.call
                                 /\ docs' = r.docs
                                 /\ deleted' = AfterIndex(c.doc_id)
                    [] c.op = "delete" ->
                         \E resp \in Responses :
                             LET r == OpenSearchDeleteResume(c, resp)
                             IN  /\ last' = r.call
                                 /\ docs' = r.docs
                                 /\ deleted' = AfterDelete(r.call)
    /\ UNCHANGED <<settings, collection_name, kind, client, inner, connected, colls,
                   lastConnect, probe, blocked, made, open, owned>>

FlightNext ==
    \/ FlightCall
    \/ FlightClose
    \/ FlightReply

FlightSpec == FlightInit /\ [][FlightNext]_vars

\* ------------------------------------------------- the adapter's engine clients
\* serialized connect() and close() calls on one Qdrant adapter, with the
\* QdrantClient objects it constructs numbered in order: a client is open from
\* its construction until close() is called on it
ConnInit ==
    /\ settings = NoSettings
    /\ collection_name = Bound
    /\ kind = "qdrant"
    /\ client = NULL
    /\ inner = NULL
    /\ connected = FALSE
    /\ colls \in {[n \in CollNames |-> IF n = Bound THEN b ELSE 0] : b \in {0} \cup Sizes}
    /\ docs = [x \in {} |-> NULL]
    /\ lastConnect = "none"
    /\ deleted = {}
    /\ last = Call("init")
    /\ probe = NoProbe
    /\ tasks = <<>>
    /\ blocked = NULL
    /\ made = 0
    /\ open = {}
    /\ owned = 0

\* connect(): "self.client = QdrantClient(...)" rebinds self.client to the new
\* client, the except clause rebinds it to None; nothing in connect() closes
\* a client.  A client that loses the adapter's reference may be finalized
\* by the runtime (collect), which closes it, or may not
ConnConnect ==
    /\ made < MaxClients
    /\ \E ctor \in Outcomes, ping \in Outcomes, cc \in Outcomes, collect \in BOOLEAN :
       \E gc \in QdrantGetCollectionOutcomes :
           LET r    == QdrantConnect(ctor, ping, gc, cc)
               new  == made + 1
               alive == IF ctor = "ok" THEN open \cup {new} ELSE open
               own  == IF r.client = NULL THEN 0 ELSE new
               lost == ({owned} \cup (IF ctor = "ok" THEN {new} ELSE {})) \ {own}
           IN  /\ client' = r.client
               /\ connected' = r.connected
               /\ colls' = r.colls
               /\ lastConnect' = IF r.failed THEN "failed" ELSE "ok"
               /\ last' = [Call("connect") EXCEPT
                              !.preReady = IsConnected, !.raised = r.raised,
                              !.err = r.err, !.sent = (ctor = "ok")]
               /\ made' = IF ctor = "ok" THEN new ELSE made
               /\ owned' = own
               /\ open' = IF collect THEN alive \ lost ELSE alive
    /\ UNCHANGED <<settings, collection_name, kind, inner, docs, deleted, probe, tasks, blocked>>

\* close(): client.close() closes the client self.client refers to, unless
\* it raises; self.client keeps referring to it
ConnClose ==
    /\ \E out \in Drawn(Outcomes, client # NULL) :
           LET r == QdrantClose(out)
           IN  /\ client' = r.client
               /\ connected' = r.connected
               /\ last' = [Call("close") EXCEPT
                              !.preReady = IsConnected, !.raised = r.raised,
                              !.err = r.err, !.sent = r.sent]
               /\ open' = IF client # NULL /\ out = "ok" THEN open \ {owned} ELSE open
    /\ UNCHANGED <<settings, collection_name, kind, inner, colls, docs, lastConnect, deleted,
                   probe, tasks, blocked, made, owned>>

ConnNext ==
    \/ ConnConnect
    \/ ConnClose

ConnSpec == ConnInit /\ [][ConnNext]_vars

\* --------------------------------------------------------------- properties
\* the handle the adapter itself owns and clears: self.client
Handle == client

Descending(results) ==
    \A i, j \in 1..Len(results) : i < j => results[i].score >= results[j].score

\* C1: a search_similar_documents call made while is_connected is false returns
\* the empty sequence and raises nothing, on either adapter
C1_DisconnectedSearchIsEmpty ==
    (last.op = "search" /\ ~last.preReady) =>
        (last.results = <<>> /\ ~last.raised)

\* a search on an adapter that holds a client but is not connected, while
\* the engine holds documents
C1_Witness ==
    /\ last.op = "search"
    /\ ~last.preReady
    /\ client # NULL
    /\ DOMAIN docs # {}

\* C2: no call lets an exception escape; when the engine fails during the
\* call, search returns the empty list and index / delete / create_collection
\* return false
C2_NoExceptionEscapes ==
    /\ ~last.raised
    /\ last.err =>
        /\ (last.op = "search" => last.results = <<>>)
        /\ (last.op \in {"index", "delete", "create_collection"} => ~last.ret)

\* a connect() during which the engine failed
C2_Witness ==
    /\ last.op = "connect"
    /\ last.err
    /\ last.sent

\* C3: after any close() the adapter is not connected and its connection
\* handle is cleared (stated for the Qdrant adapter, whose self.client is the
\* engine connection itself)
C3_CloseClearsConnection ==
    (kind = "qdrant" /\ last.op = "close") => (~IsConnected /\ Handle = NULL)

\* C4: after any connect() the adapter is connected with a live handle or not
\* connected with its handle cleared, and connect() raised nothing
C4_ConnectedOrCleared ==
    last.op = "connect" =>
        /\ ~last.raised
        /\ \/ (IsConnected /\ Handle # NULL)
           \/ (~connected /\ Handle = NULL)

\* C5: when connect() leaves the Qdrant adapter connected, the collection it
\* is bound to exists in the engine
C5_ConnectedMeansCollectionExists ==
    (kind = "qdrant" /\ last.op = "connect" /\ IsConnected) => colls[Bound] # 0

\* C6: a Qdrant search returns at most limit results, each scoring at least
\* min_score, best first, and hands limit and min_score unchanged to the engine
C6_QdrantSearchBounded ==
    (kind = "qdrant" /\ last.op = "search") =>
        /\ Len(last.results) <= last.limit
        /\ \A i \in 1..Len(last.results) : last.results[i].score >= last.min_score
        /\ Descending(last.results)
        /\ last.sent => (last.engLimit = last.limit
                         /\ last.engThreshold = last.min_score)

\* a Qdrant search over two stored documents of which the threshold keeps one
C6_Witness ==
    /\ kind = "qdrant"
    /\ last.op = "search"
    /\ Cardinality(DOMAIN docs) = 2
    /\ last.min_score = 2
    /\ Len(last.results) = 1

\* C7: an OpenSearch search returns at most limit results, each scoring at
\* least min_score, in descending order of score, whatever hits the client returns
C7_OpenSearchSearchBounded ==
    (kind = "opensearch" /\ last.op = "search") =>
        /\ Len(last.results) <= last.limit
        /\ \A i \in 1..Len(last.results) : last.results[i].score >= last.min_score
        /\ Descending(last.results)

\* C8: index_document returns true only when the engine has confirmed the
\* write, and the document is then stored
C8_IndexTrueOnlyWhenConfirmed ==
    (last.op = "index" /\ last.ret) =>
        (last.ack /\ last.doc_id \in DOMAIN docs)

\* an index_document call that returned true for a document already stored
C8_Witness ==
    /\ last.op = "index"
    /\ last.ret
    /\ last.preDoc

\* C9: delete_document returns true only when a document with that id was
\* there and the engine deleted it
C9_DeleteTrueOnlyWhenDeleted ==
    (last.op = "delete" /\ last.ret) =>
        (last.preDoc /\ last.doc_id \notin DOMAIN docs)

\* C10: while the latest connect() has failed, index_document and
\* delete_document return false, send nothing to the engine and leave its
\* documents as they are
C10_NoWritesAfterFailedConnect ==
    [][(lastConnect = "failed" /\ last'.op \in {"index", "delete"}) =>
          (~last'.ret /\ ~last'.sent /\ docs' = docs)]_vars

\* an index or delete call after a failed connect(), the engine holding documents
C10_Witness ==
    /\ lastConnect = "failed"
    /\ last.op \in {"index", "delete"}
    /\ client # NULL
    /\ DOMAIN docs # {}

\* a result for the document doc_id carrying the body it was indexed with
HasResult(results, doc_id, body) ==
    \E i \in 1..Len(results) :
        results[i].doc_id = doc_id /\ results[i].body = body

\* the stored documents whose vector is v: those that score as high as a
\* document indexed with v when v is the query
SameVector(v) == {x \in DOMAIN docs : docs[x].vector = v}

NoResultFor(results, doc_id) ==
    \A i \in 1..Len(results) : results[i].doc_id # doc_id

\* C12: after delete_document(id) on a connected adapter, a search that
\* follows it (no index_document for id in between) returns no result whose
\* doc_id is id
C12_DeleteThenSearch ==
    [][(/\ last.op = "delete" /\ last.preReady
        /\ last'.op = "search")
       => NoResultFor(last'.results, last.doc_id)]_vars

\* C12, amended: after a delete_document(id) that returned true, and with no
\* later index_document call for id, no search returns a result whose doc_id
\* is id
C12_DeletedNotReturned ==
    last.op = "search" => \A x \in deleted : NoResultFor(last.results, x)

\* a search on a connected adapter, after a delete_document that returned
\* true, that returns one result and whose query vector is a stored document's
C12_Witness ==
    /\ last.op = "search" /\ last.preReady
    /\ deleted # {}
    /\ Len(last.results) = 1
    /\ \E x \in DOMAIN docs : docs[x].vector = last.vector

\* the requests that ask for auto-detection: "auto", empty, None
AutoRequests == {NULL, "", "auto"}

\* C13: create_backend with "auto", "" or None, every step of it succeeding,
\* returns a Qdrant adapter when the Qdrant host is set, whether or not the
\* OpenSearch settings are, and an OpenSearch adapter when only the OpenSearch
\* settings are set
C13_AutoPrefersQdrant ==
    (last.op = "create_backend" /\ last.request \in AutoRequests /\ ~last.err) =>
        /\ Truthy(settings.QDRANT_HOST) => kind = "qdrant"
        /\ (~Truthy(settings.QDRANT_HOST) /\ settings.OS # NULL) => kind = "opensearch"

\* auto-detection with both engines configured has returned a Qdrant adapter
C13_Witness ==
    /\ last.op = "create_backend" /\ last.request \in AutoRequests /\ ~last.err
    /\ settings.QDRANT_HOST = "qhost" /\ settings.OS = "os"
    /\ kind = "qdrant"

Unconfigured == ~Truthy(settings.QDRANT_HOST) /\ settings.OS = NULL

\* C14: with neither a Qdrant host nor OpenSearch settings configured,
\* create_backend("auto") returns an OpenSearch adapter; on that adapter no
\* call raises, is_connected stays false after connect(), search returns []
\* and index_document and delete_document return false
C14_UnconfiguredFallback ==
    Unconfigured =>
        /\ (last.op = "create_backend" /\ last.request \in AutoRequests /\ ~last.err)
               => kind = "opensearch"
        /\ kind = "opensearch" =>
               /\ ~IsConnected
               /\ ~last.raised
               /\ last.op = "search" => last.results = <<>>
               /\ last.op \in {"index", "delete"} => ~last.ret

\* a search on the fallback adapter after its connect() found nothing to
\* connect to
C14_Witness ==
    /\ Unconfigured /\ kind = "opensearch"
    /\ lastConnect = "failed"
    /\ last.op = "search" /\ last.results = <<>>

\* C15: create_backend returns an adapter or None and lets no exception
\* escape: an unknown engine name gives None, and so does a failure at any
\* step (reading settings, auto-detection, building the adapter)
C15_CreateBackendNeverRaises ==
    last.op = "create_backend" =>
        /\ ~last.raised
        /\ last.request = "nonexistent" => kind = "none"
        /\ last.err => kind = "none"

\* a scalar field of a SearchResult that holds a value
Populated(x) == x \notin {NULL, ABSENT}

\* C16: every SearchResult a search returns, whatever the shape of the hit
\* (payload fields missing or null), has doc_id, text, details, category and
\* score populated
C16_ResultsPopulated ==
    last.op = "search" =>
        \A i \in 1..Len(last.results) :
            /\ Populated(last.results[i].doc_id)
            /\ Populated(last.results[i].body)
            /\ last.results[i].score \in Scores

\* C17: on a Qdrant adapter for VectorDim-sized vectors whose collection is
\* missing, connect(), index_document("a", [1,0,0]), index_document("b",
\* [0,1,0]) and search_similar_documents([1,0,0], limit=1, min_score=0), the
\* engine answering every call, end with exactly one result, whose doc_id is "a"
C17_ProbeFindsA ==
    (probe.pc = 4 /\ probe.healthy /\ probe.missing) =>
        (Len(last.results) = 1 /\ last.results[1].doc_id = ProbeA)

\* C18: when connect() finds the bound collection missing it creates it with
\* the dimensionality the adapter is meant for (here VectorDim, overriding
\* the default of DefaultVectorSize)
C18_CreatedWithConfiguredSize ==
    (probe.pc >= 1 /\ probe.missing /\ colls[Bound] # 0) => colls[Bound] = VectorDim

\* C19: while a task's search, index or delete call waits for the engine's
\* reply, the event loop is free: every other task that has a step to take
\* can take it, on either adapter
C19_WaitingDoesNotBlock ==
    \A t \in Tasks, u \in Tasks :
        (/\ t # u
         /\ tasks[t].pc = "waiting"
         /\ tasks[u].pc = "ready" /\ tasks[u].steps < MaxSteps)
            => blocked = NULL

\* C20: after any sequence of connect() and close() calls the only engine
\* client that can be open is the one the adapter refers to: every client a
\* connect() replaced or discarded has been closed
C20_NoOrphanConnections ==
    open \subseteq {owned}

\* C21: on the Qdrant adapter is_connected is true after a step only when the
\* step is a connect() whose get_collections() round-trip succeeded, or when
\* it is another call and is_connected was true before it; so in no reachable
\* state is is_connected true when the latest connect()'s round-trip failed
\* or was not made
C21_ConnectedOnlyAfterRoundTrip ==
    [][(kind = "qdrant" /\ QdrantIsConnected') =>
          IF last'.op = "connect" THEN last'.ack ELSE QdrantIsConnected]_vars

C21_Witness ==
    /\ kind = "qdrant"
    /\ last.op = "connect" /\ last.ack
    /\ ~last.preReady
    /\ QdrantIsConnected

\* C22: index_document creates or replaces by doc_id: after a call that
\* returned true the bound collection holds, under the call's doc_id, one
\* document with the vector and the text, details, category and metadata of
\* that call, and every document with another doc_id is as it was; so after
\* successful calls there is one document per doc_id, that of the latest call
C22_IndexReplacesById ==
    [][(last'.op = "index" /\ last'.ret) =>
          /\ DOMAIN docs' = DOMAIN docs \cup {last'.doc_id}
          /\ docs'[last'.doc_id].vector = last'.vector
          /\ docs'[last'.doc_id].payload.id = last'.doc_id
          /\ docs'[last'.doc_id].payload.body = last'.body
          /\ \A x \in DOMAIN docs \ {last'.doc_id} : docs'[x] = docs[x]]_vars

\* a successful index_document over a stored document, another one stored
C22_Witness ==
    /\ last.op = "index" /\ last.ret /\ last.preDoc
    /\ DOMAIN docs = DocIds
    /\ docs[last.doc_id].vector = last.vector
    /\ \E x \in DocIds : docs[x].payload.body # last.body

\* the calls that are neither connect() nor close()
DataOps == {"search", "index", "delete", "create_collection"}

\* C23: search_similar_documents, index_document, delete_document and
\* create_collection leave the connected flag and the connection handle
\* (self.client, and the lower client's handle on OpenSearch) as they were,
\* whether they succeed or fail: there is no automatic reconnect
C23_NoAutomaticReconnect ==
    [][last'.op \in DataOps => UNCHANGED <<connected, client, inner>>]_vars

\* a data call that the engine failed, on an adapter that stays connected
C23_Witness ==
    /\ last.op \in DataOps
    /\ last.preReady /\ last.sent /\ last.err
    /\ IsConnected

\* C24: the name the adapter is bound to never changes: every search, index
\* and delete request sent to the engine names the collection given at
\* construction, and a create_collection(name, size) that succeeds creates
\* the collection of that name, the bound one or another, and leaves the
\* binding alone
C24_BindingNeverChanges ==
    [][/\ collection_name' = collection_name
       /\ (last'.op \in {"search", "index", "delete"} /\ last'.sent)
              => last'.coll = Bound
       /\ (last'.op = "create_collection" /\ last'.ret)
              => (colls[last'.coll] = 0 /\ colls'[last'.coll] # 0)]_vars

\* a data request sent after create_collection made the other collection
C24_Witness ==
    /\ colls[Other] # 0
    /\ last.op \in {"search", "index", "delete"} /\ last.sent
    /\ last.coll = collection_name

\* C25: the doc_id of every SearchResult of a search is non-empty, and is the
\* payload's own id when the stored document's payload has an id field,
\* otherwise the engine's identifier of the hit
C25_DocIdFromPayloadOrHit ==
    last.op = "search" =>
        \A i \in 1..Len(last.results) :
            \E x \in DOMAIN docs :
                /\ last.results[i].doc_id \notin {NULL, ABSENT, ""}
                /\ last.results[i].doc_id =
                       IF docs[x].payload.id # ABSENT THEN docs[x].payload.id ELSE x

\* C26: in every reachable state of either adapter, whatever connect(),
\* close() and data calls were made and whatever the engine failed, the
\* connected flag being true implies that self.client is not None
C26_ConnectedImpliesClient ==
    connected => Handle # NULL

\* the flag still true after a close() whose engine call failed
C26_Witness ==
    /\ last.op = "close" /\ last.err
    /\ connected /\ Handle # NULL

\* C27: create_backend resolves the requested type without regard to letter
\* case: a call no step of which failed gives, for every letter-case variant
\* of "qdrant", "opensearch" and "auto", the adapter kind the lowercase form
\* gives under the same configuration
C27_CaseInsensitive ==
    (last.op = "create_backend" /\ ~last.err) =>
        kind = CreateBackend(Lower(last.request), "ok", "ok", "ok").backend.kind

\* C28: on both adapters a create_collection call made while is_connected is
\* false (never connected, connect failed, or after close()) returns false
\* and sends no creation request to the engine
C28_CreateCollectionNeedsConnection ==
    (last.op = "create_collection" /\ ~last.preReady) =>
        (~last.ret /\ ~last.sent)

\* C29: the factory's introspection agrees with its selection: under every
\* configuration, when create_backend("auto") returns an adapter of engine E,
\* is_backend_available(E) is true and E is in get_available_backends()
C29_IntrospectionAgrees ==
    (last.op = "create_backend" /\ last.request = "auto" /\ kind # "none") =>
        (IsBackendAvailable(kind) /\ kind \in GetAvailableBackends)

\* C30: on the OpenSearch adapter, when close() ran while a search, index or
\* delete call was waiting for the engine (its connected check passed), the
\* call still returns without an exception escaping: with the neutral value
\* ([] / false) when the engine request failed, otherwise with the result of
\* the engine's reply
C30_InFlightCallSurvivesClose ==
    [][\A t \in FlightTasks :
          (tasks[t].pc = "waiting" /\ tasks[t].closed /\ tasks'[t].pc = "ready") =>
              /\ ~last'.raised
              /\ last'.op = tasks[t].call.op
              /\ last'.err => (last'.results = <<>> /\ ~last'.ret)
              /\ \A i \in 1..Len(last'.results) :
                     last'.results[i].doc_id \in DOMAIN docs']_vars

\* a call whose engine request failed after close() ran during its wait
C30_Witness ==
    \E t \in FlightTasks :
        /\ tasks[t].pc = "ready" /\ tasks[t].closed
        /\ last.op \in Ops /\ last.preReady /\ last.err
        /\ ~connected

====
